---- MODULE Spec2Model ----
(***************************************************************************)
(* Response capture of vscode-restclient: the runtime shared variable      *)
(* store (UserDataManager), and the capture cycle that writes to it        *)
(* (RequestController.applySetMetadata).                                   *)
(*                                                                         *)
(* JavaScript runs one callback at a time; a step of this model is one     *)
(* such callback (an API call up to its first suspension, or the           *)
(* continuation of an await), or one effect of the operating system on     *)
(* the store file (a read sampling it, a write landing in it).             *)
(***************************************************************************)
EXTENDS Naturals, Sequences, FiniteSets, TLC

VARIABLES
    file,          \* contents of runtime-shared.json
    file0,         \* the file as it was at process start (never changes)
    persisted,     \* history: every map the file has durably held
    cache,         \* UserDataManager.runtimeSharedVariablesCache
    cacheRef,      \* identity of the object the cache points to
    queue,         \* UserDataManager.runtimeSharedWriteQueue: id of the tail promise
    ops,           \* store calls made by callers, in call-issue order
    cacheBy,       \* id of the op that assigned the cache last, 0 before any
    mutations,     \* how many times a caller has mutated a map it holds
    sharedEnv,     \* keys of SystemSettings' $shared environment (predeclared)
    cycles,        \* the capture cycles (applySetMetadata), in start order
    runs,          \* the exchanges (RequestController.runCore), in start order
    lastPending,   \* RequestController._lastPendingRequest: a run, 0 for undefined
    responseCache, \* RequestVariableCache: the runs whose response was added
    completion     \* the completion request being answered, and its answer

vars == <<file, file0, persisted, cache, cacheRef, queue, ops, cacheBy, mutations,
          sharedEnv, cycles, runs, lastPending, responseCache, completion>>

callerVars == <<queue, ops, mutations>>
captureVars == <<sharedEnv, cycles>>
runVars == <<runs, lastPending, responseCache>>
editorVars == <<completion>>
\* The storage a capture cycle can touch: the file and the cache.
storeVars == <<file, persisted, cache, cacheRef, cacheBy>>

(***************************************************************************)
(* Bounds of the model.                                                    *)
(***************************************************************************)
\* What the callers of a behaviour do at most: store calls plus mutations.
MaxOps == 3
\* The update calls of a behaviour of SpecChain.
MaxUpdates == 3
\* The capture cycles of a behaviour of SpecCapture.
MaxCycles == 2
\* The directives of one request.
MaxDirectives == 4
\* The directives of all the cycles of a behaviour of SpecCapture together.
MaxOverlapDirectives == 3
\* The exchanges of a behaviour of SpecRun (runs and reruns).
MaxRuns == 2

(***************************************************************************)
(* Data: a SharedVariableMap is a total function from Names to values,     *)
(* where the value Absent says that the key is not in the object.          *)
(***************************************************************************)
Names == {"a", "b", "g"}
Absent == "<absent>"
Poison == "<mutated>"

EmptyMap == [n \in Names |-> Absent]
NoMap == [n \in Names |-> "<undefined>"]
Corrupt == [n \in Names |-> "<not json>"]
NoRef == <<"-", 0>>

MapA1 == [EmptyMap EXCEPT !["a"] = "v1"]
MapB2 == [EmptyMap EXCEPT !["b"] = "v2"]

InitialFiles == {Corrupt, MapA1}
ReplaceMaps == {MapB2, EmptyMap}
Updaters == {"incA", "copyAB"}

\* JsonFileUtility.deserializeFromFile(path, {}): the parsed file, or the
\* default {} when the file does not parse (an empty file, as initialize()
\* creates it, does not).
Deserialize(f) == IF f = Corrupt THEN EmptyMap ELSE f

\* The caller's updater functions: incA counts in key a, copyAB copies a to b.
BumpValue(v) ==
    CASE v = Absent -> "v1"
      [] v = "v1" -> "v2"
      [] v = "v2" -> "v3"
      [] OTHER -> Absent

ApplyUpdater(u, m) ==
    IF u = "incA" THEN [m EXCEPT !["a"] = BumpValue(m["a"])]
    ELSE [m EXCEPT !["b"] = m["a"]]

\* What a caller does to a map it holds.
Mutated(m) == [m EXCEPT !["a"] = Poison]

\* { ...src }: a newly allocated object, fresh, with the properties of src.
SpreadAlias(src, fresh) == src
Spread(src, fresh) == fresh

\* .catch(() => undefined) on the previous tail: a rejected tail is turned
\* into a fulfilled one before the next update is chained.
CatchMissing(state) == state
CatchRecover(state) == "resolved"

\* What updateRuntimeSharedVariables returns: the queue after the assignment.
ReturnedPrevious(prevTail, newTail) == prevTail
ReturnedHandle(prevTail, newTail) == newTail

(***************************************************************************)
(* Promises. Promise 0 is the initial Promise.resolve(); promise k > 0 is  *)
(* the one op k made.                                                      *)
(***************************************************************************)
OpIds == 1..Len(ops)

PromiseState(p) ==
    IF p = 0 THEN "resolved"
    ELSE IF ops[p].pc \in {"resolved", "rejected"} THEN ops[p].pc
    ELSE "pending"

Settled(p) == PromiseState(p) # "pending"

\* The chain is ready for the callback of an update chained on prevTail.
ChainUnordered(prevTail) == TRUE
ChainReady(prevTail) == Settled(prevTail)

NewOp(kind, u) ==
    [kind |-> kind, upd |-> u, pc |-> "new", pred |-> 0, handle |-> 0,
     snap |-> NoMap, out |-> NoMap, held |-> NoMap, heldRef |-> NoRef,
     applied |-> 0, fail |-> "none", landed |-> FALSE, advanced |-> FALSE,
     chained |-> FALSE, after |-> 0, mutAt |-> 0]

\* if (this.runtimeSharedVariablesCache): an object, even {}, is truthy.
CacheHitNever == FALSE
CacheHit == cache # NoMap

\* The replace whose map the cache holds: the latest op to assign the cache,
\* when it is a replace; else 0.
CacheReplace ==
    IF cacheBy # 0 /\ ops[cacheBy].kind = "replace" THEN cacheBy ELSE 0

(***************************************************************************)
(* updateRuntimeSharedVariables(updater)                                   *)
(***************************************************************************)
\* The call: chain the work on the tail, make it the tail, return it.
IssueUpdate(u) ==
    /\ LET k == Len(ops) + 1 IN
        /\ ops' = Append(ops, [NewOp("update", u) EXCEPT
                                 !.pc = "queued", !.pred = queue,
                                 !.handle = ReturnedHandle(queue, k),
                                 !.chained = ~Settled(queue),
                                 !.mutAt = mutations])
        /\ queue' = k
    /\ UNCHANGED <<file, file0, persisted, cache, cacheRef, cacheBy, mutations>>

\* The chained callback starts once the tail has settled, and reads the file
\* (the read samples the file here; its continuation is UpdateApply). A read
\* that fails rejects the promise of this update.
UpdateStart(k, readOk) ==
    /\ ops[k].kind = "update" /\ ops[k].pc = "queued"
    /\ ChainReady(ops[k].pred)
    /\ ops' = IF CatchRecover(PromiseState(ops[k].pred)) # "resolved"
              THEN [ops EXCEPT ![k].pc = "rejected"]
              ELSE IF readOk
              THEN [ops EXCEPT ![k].pc = "read", ![k].snap = Deserialize(file)]
              ELSE [ops EXCEPT ![k].pc = "rejected", ![k].fail = "read"]
    /\ UNCHANGED <<file, file0, persisted, cache, cacheRef, cacheBy, queue, mutations>>

\* The continuation of the read: apply the updater, set the cache, start the
\* write of the updated map.
UpdateApply(k) ==
    /\ ops[k].kind = "update" /\ ops[k].pc = "read"
    /\ LET updated == ApplyUpdater(ops[k].upd, ops[k].snap) IN
        /\ cache' = updated
        /\ cacheRef' = Spread(<<"U", k>>, <<"C", k>>)
        /\ cacheBy' = k
        /\ ops' = [ops EXCEPT ![k].pc = "writing", ![k].out = updated,
                              ![k].held = updated, ![k].heldRef = <<"U", k>>,
                              ![k].applied = @ + 1, ![k].advanced = TRUE]
    /\ UNCHANGED <<file, file0, persisted, queue, mutations>>

(***************************************************************************)
(* JsonFileUtility.serializeToFile: the write lands in the file or fails;  *)
(* then the promise of the call settles.                                   *)
(***************************************************************************)
WriteLand(k, writeOk) ==
    /\ ops[k].kind \in {"update", "replace"} /\ ops[k].pc = "writing"
    /\ IF writeOk
       THEN /\ file' = ops[k].out
            /\ persisted' = persisted \cup {ops[k].out}
            /\ ops' = [ops EXCEPT ![k].pc = "landed", ![k].landed = TRUE]
       ELSE /\ ops' = [ops EXCEPT ![k].pc = "rejected", ![k].fail = "write"]
            /\ UNCHANGED <<file, persisted>>
    /\ UNCHANGED <<file0, cache, cacheRef, cacheBy, queue, mutations>>

WriteSettle(k) ==
    /\ ops[k].kind \in {"update", "replace"} /\ ops[k].pc = "landed"
    /\ ops' = [ops EXCEPT ![k].pc = "resolved"]
    /\ UNCHANGED <<file, file0, persisted, cache, cacheRef, cacheBy, queue, mutations>>

(***************************************************************************)
(* setRuntimeSharedVariables(variables)                                    *)
(***************************************************************************)
IssueReplace(m) ==
    /\ LET k == Len(ops) + 1 IN
        /\ cache' = m
        /\ cacheRef' = Spread(<<"A", k>>, <<"C", k>>)
        /\ cacheBy' = k
        /\ ops' = Append(ops, [NewOp("replace", "-") EXCEPT
                                 !.pc = "writing", !.handle = k, !.out = m,
                                 !.held = m, !.heldRef = <<"A", k>>,
                                 !.advanced = TRUE, !.mutAt = mutations])
    /\ UNCHANGED <<file, file0, persisted, queue, mutations>>

(***************************************************************************)
(* getRuntimeSharedVariables()                                             *)
(***************************************************************************)
IssueRead ==
    /\ LET k == Len(ops) + 1 IN
        IF CacheHit
        THEN ops' = Append(ops, [NewOp("read", "-") EXCEPT
                                   !.pc = "resolved", !.handle = k, !.out = cache,
                                   !.held = cache,
                                   !.heldRef = Spread(cacheRef, <<"R", k>>),
                                   !.after = CacheReplace, !.mutAt = mutations])
        ELSE ops' = Append(ops, [NewOp("read", "-") EXCEPT
                                   !.pc = "loading", !.handle = k,
                                   !.after = CacheReplace, !.mutAt = mutations])
    /\ UNCHANGED <<file, file0, persisted, cache, cacheRef, cacheBy, queue, mutations>>

\* The file read of a cache miss samples the file, or fails.
ReadLoad(k, readOk) ==
    /\ ops[k].kind = "read" /\ ops[k].pc = "loading"
    /\ ops' = IF readOk
              THEN [ops EXCEPT ![k].pc = "loaded", ![k].snap = Deserialize(file)]
              ELSE [ops EXCEPT ![k].pc = "rejected", ![k].fail = "read"]
    /\ UNCHANGED <<file, file0, persisted, cache, cacheRef, cacheBy, queue, mutations>>

\* .then(variables => ...): fill the cache, return a copy.
ReadDeliver(k) ==
    /\ ops[k].kind = "read" /\ ops[k].pc = "loaded"
    /\ cache' = ops[k].snap
    /\ cacheRef' = Spread(<<"V", k>>, <<"C", k>>)
    /\ cacheBy' = k
    /\ ops' = [ops EXCEPT ![k].pc = "resolved", ![k].out = ops[k].snap,
                          ![k].held = ops[k].snap,
                          ![k].heldRef = Spread(<<"V", k>>, <<"R", k>>)]
    /\ UNCHANGED <<file, file0, persisted, queue, mutations>>

(***************************************************************************)
(* A caller mutates a map it holds: one returned by read(), the one it     *)
(* gave to replace, or the one its updater returned. Every holder of the   *)
(* same object sees the change.                                            *)
(***************************************************************************)
Mutate(k) ==
    /\ ops[k].heldRef # NoRef
    /\ ops[k].held["a"] # Poison
    /\ mutations' = mutations + 1
    /\ ops' = [j \in OpIds |->
                 IF ops[j].heldRef = ops[k].heldRef
                 THEN [ops[j] EXCEPT !.held = Mutated(@)]
                 ELSE ops[j]]
    /\ cache' = IF cacheRef = ops[k].heldRef THEN Mutated(cache) ELSE cache
    /\ UNCHANGED <<file, file0, persisted, cacheRef, cacheBy, queue>>

(***************************************************************************)
(* The capture cycle: RequestController.applySetMetadata.                  *)
(*                                                                         *)
(* A directive is the text after "@set" in tokens: a name, whether an "="  *)
(* follows it, and the source path. A response has headers (name, value)   *)
(* and a body.                                                             *)
(***************************************************************************)
Predeclared == {"a", "b"}
SharedSets == {{"a", "b"}, {"a"}}

Identifiers == {"a", "b", "g"}

HeaderPath(h) == [kind |-> "header", key |-> h]
JsonPath(seg) == [kind |-> "json", key |-> seg]

Directive(n, p) == [name |-> n, eq |-> TRUE, path |-> p]

DirectiveSet ==
    { Directive("a", HeaderPath("x-token")),
      Directive("b", JsonPath("id")),
      Directive("a", JsonPath("none")),
      Directive("g", HeaderPath("x-token")),
      Directive("b", JsonPath("missing")),
      Directive("1x", JsonPath("id")) }

JsonValue(t, v) == [t |-> t, v |-> v]

\* Headers {"X-Token": "t1"}, body {"id": 42, "name": "x", "none": null}.
Response1 ==
    [headers |-> {<<"X-Token", "t1">>},
     body |-> {<<"id", JsonValue("number", "42")>>,
               <<"name", JsonValue("string", "x")>>,
               <<"none", JsonValue("null", "")>>}]

Responses == {Response1}

\* String.prototype.toLowerCase on the header names of the model.
ToLowerCase(str) == IF str = "X-Token" THEN "x-token" ELSE str

\* Selector.parseSetAssignment: <name> = <path>, the name an identifier.
ParseSetAssignment(d) ==
    [ok |-> d.eq /\ d.name \in Identifiers,
     targetName |-> d.name, sourcePath |-> d.path]

\* RequestVariableCacheValueProcessor.resolveResponseVariable.
ResolveResponseVariable(response, path) ==
    IF path.kind = "header"
    THEN LET hits == {h \in response.headers :
                        ToLowerCase(h[1]) = ToLowerCase(path.key)} IN
         IF hits = {}
         THEN [state |-> "Warning", value |-> JsonValue("undefined", ""),
               message |-> "header not found"]
         ELSE [state |-> "Success",
               value |-> JsonValue("string", (CHOOSE h \in hits : TRUE)[2]),
               message |-> ""]
    ELSE LET hits == {f \in response.body : f[1] = path.key} IN
         IF hits = {}
         THEN [state |-> "Warning", value |-> JsonValue("undefined", ""),
               message |-> "path segment not found"]
         ELSE [state |-> "Success", value |-> (CHOOSE f \in hits : TRUE)[2],
               message |-> ""]

\* String(value ?? ''): null and undefined give the empty string, a number
\* its decimal text, a string itself.
StringOf(value) ==
    IF value.t \in {"null", "undefined"} THEN "" ELSE value.v

\* Object.prototype.hasOwnProperty.call(sharedVariables, targetName)
AllowAny(targetName, sharedVariables) == TRUE
IsAllowed(targetName, sharedVariables) == targetName \in sharedVariables

Warning(i, kind, name, msg) == [idx |-> i, kind |-> kind, name |-> name, msg |-> msg]

\* One turn of the loop over the directives: acc holds the batch (updates)
\* and the warnings shown so far.
ProcessDirective(acc, i, d, shared, response) ==
    LET assignment == ParseSetAssignment(d) IN
    IF ~assignment.ok
    THEN [acc EXCEPT !.warns = Append(@, Warning(i, "invalid", d.name, ""))]
    ELSE IF ~IsAllowed(assignment.targetName, shared)
    THEN [acc EXCEPT !.warns =
            Append(@, Warning(i, "notPredeclared", assignment.targetName, ""))]
    ELSE LET resolveResult ==
                 ResolveResponseVariable(response, assignment.sourcePath) IN
         IF resolveResult.state # "Success"
         THEN [acc EXCEPT !.warns =
                 Append(@, Warning(i, "unresolved", assignment.targetName,
                                   resolveResult.message))]
         ELSE [acc EXCEPT !.updates[assignment.targetName] =
                 StringOf(resolveResult.value)]

\* A loop that takes the directives from the last to the first.
RECURSIVE ProcessBackwards(_, _, _, _, _)
ProcessBackwards(acc, i, ds, shared, response) ==
    IF i > Len(ds) THEN acc
    ELSE ProcessDirective(ProcessBackwards(acc, i + 1, ds, shared, response),
                          i, ds[i], shared, response)

\* A loop that gives up at the first directive it has to skip.
RECURSIVE ProcessUntilSkipped(_, _, _, _, _)
ProcessUntilSkipped(acc, i, ds, shared, response) ==
    IF i > Len(ds) \/ acc.warns # <<>> THEN acc
    ELSE ProcessUntilSkipped(ProcessDirective(acc, i, ds[i], shared, response),
                             i + 1, ds, shared, response)

RECURSIVE ProcessDirectives(_, _, _, _, _)
ProcessDirectives(acc, i, ds, shared, response) ==
    IF i > Len(ds) THEN acc
    ELSE ProcessDirectives(ProcessDirective(acc, i, ds[i], shared, response),
                           i + 1, ds, shared, response)

\* { ...runtimeSharedVariables, ...updates }
Merge(base, updates) ==
    [n \in Names |-> IF updates[n] # Absent THEN updates[n] ELSE base[n]]

CycleIds == 1..Len(cycles)

RECURSIVE DirectivesOf(_)
DirectivesOf(c) == IF c = 0 THEN 0 ELSE Len(cycles[c].ds) + DirectivesOf(c - 1)

NewCycle(ds, response) ==
    [ds |-> ds, resp |-> response, shared |-> {}, pc |-> "new",
     snap |-> NoMap, updates |-> EmptyMap, warns |-> <<>>, out |-> NoMap,
     sharedAtWrite |-> {}, fileBefore |-> NoMap, fileAtDone |-> NoMap,
     fail |-> "none"]

\* The cycle from the moment it has the store's map (the continuation of
\* await getRuntimeSharedVariables()) to its next suspension: the loop, and
\* if the batch is not empty the call of setRuntimeSharedVariables, which
\* sets the cache and starts the write.
Processed(cy, runtimeSharedVariables) ==
    LET acc == ProcessDirectives([updates |-> EmptyMap, warns |-> <<>>], 1,
                                 cy.ds, cy.shared, cy.resp)
        merged == Merge(runtimeSharedVariables, acc.updates)
    IN  IF acc.updates # EmptyMap
        THEN [cy EXCEPT !.pc = "writing", !.snap = runtimeSharedVariables,
                        !.updates = acc.updates, !.warns = acc.warns,
                        !.out = merged, !.sharedAtWrite = sharedEnv]
        ELSE [cy EXCEPT !.pc = "done", !.snap = runtimeSharedVariables,
                        !.updates = acc.updates, !.warns = acc.warns]

\* if (directives.length === 0) return
NoDirectivesNever(ds) == FALSE
NoDirectives(ds) == Len(ds) = 0

\* applySetMetadata is called with the directives and the response. Without
\* directives it returns at once. With a cache, read() is answered from it
\* and the cycle runs on to its write; without, the file is read first.
CaptureStart(ds, response) ==
    LET c == Len(cycles) + 1
        cy == [NewCycle(ds, response) EXCEPT !.shared = sharedEnv] IN
    IF NoDirectives(ds)
    THEN /\ cycles' = Append(cycles, [NewCycle(ds, response) EXCEPT !.pc = "done"])
         /\ UNCHANGED <<file, file0, persisted, cache, cacheRef, cacheBy,
                        sharedEnv>>
    ELSE IF CacheHit
    THEN LET done == Processed(cy, cache) IN
         /\ cycles' = Append(cycles, done)
         /\ cache' = IF done.pc = "writing" THEN done.out ELSE cache
         /\ cacheRef' = IF done.pc = "writing"
                        THEN Spread(<<"M", c>>, <<"K", c>>) ELSE cacheRef
         /\ cacheBy' = IF done.pc = "writing" THEN 0 ELSE cacheBy
         /\ UNCHANGED <<file, file0, persisted, sharedEnv>>
    ELSE /\ cycles' = Append(cycles, [cy EXCEPT !.pc = "loading"])
         /\ UNCHANGED <<file, file0, persisted, cache, cacheRef, cacheBy,
                        sharedEnv>>

\* The file read of the cycle's read() samples the file, or fails.
CaptureLoad(c, readOk) ==
    /\ cycles[c].pc = "loading"
    /\ cycles' = IF readOk
                 THEN [cycles EXCEPT ![c].pc = "loaded",
                                     ![c].snap = Deserialize(file)]
                 ELSE [cycles EXCEPT ![c].pc = "failed", ![c].fail = "read"]
    /\ UNCHANGED <<file, file0, persisted, cache, cacheRef, cacheBy, sharedEnv>>

\* The read completes: read() fills the cache with what it loaded, and the
\* cycle runs on to its write.
CaptureResume(c) ==
    /\ cycles[c].pc = "loaded"
    /\ LET done == Processed(cycles[c], cycles[c].snap) IN
        /\ cycles' = [cycles EXCEPT ![c] = done]
        /\ cache' = IF done.pc = "writing" THEN done.out ELSE cycles[c].snap
        /\ cacheRef' = IF done.pc = "writing"
                       THEN Spread(<<"M", c>>, <<"K", c>>)
                       ELSE Spread(<<"W", c>>, <<"K", c>>)
        /\ cacheBy' = 0
    /\ UNCHANGED <<file, file0, persisted, sharedEnv>>

\* The write of the cycle's map lands in the file, or fails.
CaptureLand(c, writeOk) ==
    /\ cycles[c].pc = "writing"
    /\ IF writeOk
       THEN /\ file' = cycles[c].out
            /\ persisted' = persisted \cup {cycles[c].out}
            /\ cycles' = [cycles EXCEPT ![c].pc = "landed",
                                        ![c].fileBefore = Deserialize(file)]
       ELSE /\ cycles' = [cycles EXCEPT ![c].pc = "failed", ![c].fail = "write"]
            /\ UNCHANGED <<file, persisted>>
    /\ UNCHANGED <<file0, cache, cacheRef, cacheBy, sharedEnv>>

\* await setRuntimeSharedVariables(...) returns: the cycle is complete.
CaptureSettle(c) ==
    /\ cycles[c].pc = "landed"
    /\ cycles' = [cycles EXCEPT ![c].pc = "done", ![c].fileAtDone = file]
    /\ UNCHANGED <<file, file0, persisted, cache, cacheRef, cacheBy, sharedEnv>>

\* The user edits the $shared environment in the settings.
ConfigChange(names) ==
    /\ names # sharedEnv
    /\ sharedEnv' = names
    /\ UNCHANGED <<file, file0, persisted, cache, cacheRef, cacheBy, cycles>>

(***************************************************************************)
(* The exchange: RequestController.run / rerun / cancel / runCore.         *)
(*                                                                         *)
(* A run has the HttpRequest object it sends (req: the run that created    *)
(* it; a rerun sends the object of the last run again), whether the        *)
(* request has a name, whether runCore got the document and whether it got *)
(* the metadatas, and the directives of the request's @set metadata.       *)
(***************************************************************************)
RunIds == 1..Len(runs)

NewRun(req, ds, named, document, meta) ==
    [req |-> req, ds |-> ds, named |-> named, document |-> document,
     meta |-> meta, cancelled |-> FALSE, pc |-> "sending", atArrival |-> "-", cycle |-> 0,
     errors |-> <<>>]

\* The request object that run r sends is marked cancelled.
Marked(r) == runs[runs[r].req].cancelled

\* if (httpRequest.isCancelled) return
NeverCancelled(r) == FALSE
IsCancelled(r) == Marked(r)

\* Whether the request was marked when its send settled.
AtArrival(r) == IF Marked(r) THEN "cancelled" ELSE "live"

\* finally: if (this._lastPendingRequest === httpRequest) ... = undefined
Finally(r) == IF lastPending = runs[r].req THEN 0 ELSE lastPending

\* run(range): the request is parsed and runCore called with the document
\* and the metadatas; runCore notes the request and awaits the send.
RunStart(ds, named) ==
    LET r == Len(runs) + 1 IN
    /\ runs' = Append(runs, NewRun(r, ds, named, TRUE, TRUE))
    /\ lastPending' = r
    /\ UNCHANGED <<storeVars, file0, captureVars, responseCache>>

\* The metadatas rerun() gives to runCore for the request of run last: none
\* (runCore(request, settings)); RerunWithMetadatas gives those of the run.
RerunWithMetadatas(last) == runs[last].meta
RerunMetadatas(last) == FALSE

\* rerun(): runCore with the request object of the last run (its name and
\* its text stay those of the request), without document and metadatas.
Rerun ==
    /\ runs # <<>>
    /\ LET last == runs[Len(runs)].req IN
        /\ runs' = Append(runs, NewRun(last, runs[last].ds, runs[last].named,
                                       FALSE, RerunMetadatas(last)))
        /\ lastPending' = last
    /\ UNCHANGED <<storeVars, file0, captureVars, responseCache>>

\* cancel(): this._lastPendingRequest?.cancel()
Cancel ==
    /\ lastPending # 0
    /\ ~runs[lastPending].cancelled
    /\ runs' = [runs EXCEPT ![lastPending].cancelled = TRUE]
    /\ UNCHANGED <<storeVars, file0, captureVars, lastPending, responseCache>>

\* The send settles and runCore goes on: with a response (ok) or an error.
\* A cancelled request returns at once. Else the response is added to the
\* response cache and, given metadatas, applySetMetadata is called.
Arrive(r, ok) ==
    /\ runs[r].pc = "sending"
    /\ IF IsCancelled(r)
       THEN /\ runs' = [runs EXCEPT ![r].pc = "returned",
                                    ![r].atArrival = AtArrival(r)]
            /\ lastPending' = Finally(r)
            /\ UNCHANGED <<storeVars, file0, captureVars, responseCache>>
       ELSE IF ~ok
       THEN /\ runs' = [runs EXCEPT ![r].pc = "error", ![r].atArrival = AtArrival(r),
                                    ![r].errors = Append(@, "send")]
            /\ lastPending' = Finally(r)
            /\ UNCHANGED <<storeVars, file0, captureVars, responseCache>>
       ELSE /\ responseCache' = IF runs[r].named /\ runs[r].document
                                THEN responseCache \cup {r}
                                ELSE responseCache
            /\ IF runs[r].meta
               THEN /\ CaptureStart(runs[r].ds, Response1)
                    /\ runs' = [runs EXCEPT ![r].pc = "capturing",
                                            ![r].atArrival = AtArrival(r),
                                            ![r].cycle = Len(cycles) + 1]
                    /\ UNCHANGED <<file0, lastPending>>
               ELSE /\ runs' = [runs EXCEPT ![r].pc = "done",
                                            ![r].atArrival = AtArrival(r)]
                    /\ lastPending' = Finally(r)
                    /\ UNCHANGED <<storeVars, file0, captureVars>>

\* await applySetMetadata returns: the response is shown, the run ends.
CaptureReturn(r) ==
    /\ runs[r].pc = "capturing"
    /\ cycles[runs[r].cycle].pc = "done"
    /\ runs' = [runs EXCEPT ![r].pc = "done"]
    /\ lastPending' = Finally(r)
    /\ UNCHANGED <<storeVars, file0, captureVars, responseCache>>

\* await applySetMetadata throws (the store's read or write failed): the
\* catch of runCore returns if the request is cancelled, else shows the error.
CaptureThrow(r) ==
    /\ runs[r].pc = "capturing"
    /\ cycles[runs[r].cycle].pc = "failed"
    /\ runs' = IF IsCancelled(r)
               THEN [runs EXCEPT ![r].pc = "returned"]
               ELSE [runs EXCEPT ![r].pc = "error",
                                 ![r].errors = Append(@, "store")]
    /\ lastPending' = Finally(r)
    /\ UNCHANGED <<storeVars, file0, captureVars, responseCache>>

(***************************************************************************)
(* Completion: HttpCompletionItemProvider. Texts are strings; a column is  *)
(* the number of characters left of it (Position.character).               *)
(***************************************************************************)
\* s.charAt(i - 1), "" past the end
CharAt(s, i) == IF i >= 1 /\ i <= Len(s) THEN SubSeq(s, i, i) ELSE ""

\* The characters of s from the i-th on.
From(s, i) == IF i > Len(s) THEN "" ELSE SubSeq(s, i, Len(s))

\* String.prototype.startsWith
StartsWith(s, prefix) ==
    Len(prefix) <= Len(s) /\ (prefix = "" \/ SubSeq(s, 1, Len(prefix)) = prefix)

UpperLetters == "ABCDEFGHIJKLMNOPQRSTUVWXYZ"
LowerLetters == "abcdefghijklmnopqrstuvwxyz"
Digits == "0123456789"

Within(ch, chars) == ch # "" /\ \E i \in 1..Len(chars) : CharAt(chars, i) = ch

\* \s, [A-Za-z_] and \w of the regular expressions
IsSpace(ch) == ch = " " \/ ch = "\t"
IsIdStart(ch) ==
    Within(ch, UpperLetters) \/ Within(ch, LowerLetters) \/ ch = "_"
IsWord(ch) == IsIdStart(ch) \/ Within(ch, Digits)

LowerChar(ch) ==
    IF Within(ch, UpperLetters)
    THEN CharAt(LowerLetters, CHOOSE i \in 1..Len(UpperLetters) :
                                 CharAt(UpperLetters, i) = ch)
    ELSE ch

\* String.prototype.toLowerCase
RECURSIVE LowerCase(_)
LowerCase(s) ==
    IF s = "" THEN "" ELSE LowerChar(CharAt(s, 1)) \o LowerCase(From(s, 2))

\* The first position from i on that holds no white space (\s*).
RECURSIVE SkipSpaces(_, _)
SkipSpaces(s, i) == IF IsSpace(CharAt(s, i)) THEN SkipSpaces(s, i + 1) ELSE i

\* The first position from i on that holds no word character (\w*).
RECURSIVE SkipWord(_, _)
SkipWord(s, i) == IF IsWord(CharAt(s, i)) THEN SkipWord(s, i + 1) ELSE i

HasSpace(s) == \E i \in 1..Len(s) : IsSpace(CharAt(s, i))

\* ^\s*(?:#|\/{2})\s*@set\s+ : the position after the match, 0 without one.
SetHead(s) ==
    LET m == SkipSpaces(s, 1)
        k == IF CharAt(s, m) = "#" THEN m + 1
             ELSE IF CharAt(s, m) = "/" /\ CharAt(s, m + 1) = "/" THEN m + 2
             ELSE 0
        a == SkipSpaces(s, k)
    IN  IF k = 0 THEN 0
        ELSE IF ~(CharAt(s, a) = "@" /\ CharAt(s, a + 1) = "s"
                  /\ CharAt(s, a + 2) = "e" /\ CharAt(s, a + 3) = "t")
        THEN 0
        ELSE IF ~IsSpace(CharAt(s, a + 4)) THEN 0
        ELSE SkipSpaces(s, a + 4)

NoMatch == [ok |-> FALSE, prefix |-> ""]

\* beforeCursor.match(/^\s*(?:#|\/{2})\s*@set\s+([A-Za-z_]\w*)?$/)
TargetMatch(s) ==
    LET h == SetHead(s) IN
    IF h = 0 THEN NoMatch
    ELSE IF h = Len(s) + 1 THEN [ok |-> TRUE, prefix |-> ""]
    ELSE IF IsIdStart(CharAt(s, h)) /\ SkipWord(s, h) = Len(s) + 1
    THEN [ok |-> TRUE, prefix |-> From(s, h)]
    ELSE NoMatch

\* beforeCursor.match(/^\s*(?:#|\/{2})\s*@set\s+[A-Za-z_]\w*\s*=\s*(.*)$/)
SourceMatch(s) ==
    LET h == SetHead(s)
        q == SkipSpaces(s, SkipWord(s, h))
    IN  IF h = 0 \/ ~IsIdStart(CharAt(s, h)) THEN NoMatch
        ELSE IF CharAt(s, q) # "=" THEN NoMatch
        ELSE [ok |-> TRUE, prefix |-> From(s, SkipSpaces(s, q + 1))]

HeadersDot == "response.headers."
BodyDot == "response.body."

\* The value of an item: label, insertText and range (start and end column).
Item(text, detail, start, end) ==
    [label |-> text, insertText |-> text, detail |-> detail,
     ranged |-> TRUE, range |-> <<start, end>>]

\* array.filter(x => x.startsWith(prefix)) and its case-insensitive form
Filter(options, prefix) ==
    SelectSeq(options, LAMBDA o : StartsWith(o, prefix))

FilterIgnoringCase(options, prefix) ==
    SelectSeq(options, LAMBDA o : StartsWith(LowerCase(o), LowerCase(prefix)))

\* array.map(x => item of x with the range)
Items(options, detail, start, end) ==
    [i \in 1..Len(options) |-> Item(options[i], detail, start, end)]

\* Array.from(new Set(options)): the first of equal elements stays.
Dedupe(options) ==
    LET keep == {i \in 1..Len(options) :
                    \A j \in 1..(i - 1) : options[j] # options[i]}
        F[i \in 0..Len(options)] ==
            IF i = 0 THEN <<>>
            ELSE IF i \in keep THEN Append(F[i - 1], options[i]) ELSE F[i - 1]
    IN  F[Len(options)]

\* The cached response of the request under the cursor: none, or the header
\* names and what JSON.parse makes of the body.
NoResponse == [cached |-> FALSE]
CachedResponse(headerNames, bodyKind, bodyKeys) ==
    [cached |-> TRUE, headers |-> headerNames, bodyKind |-> bodyKind,
     bodyKeys |-> bodyKeys]

\* `$.${key}` for the keys of a body that is a JSON object, not an array
BodyOptions(response) ==
    LET keys == IF response.cached /\ response.bodyKind = "object"
                THEN response.bodyKeys ELSE <<>> IN
    <<"*", "$.">> \o [i \in 1..Len(keys) |-> "$." \o keys[i]]

Undefined == [defined |-> FALSE, items |-> <<>>]
Defined(items) == [defined |-> TRUE, items |-> items]

\* The two top-level continuations that start with what was typed.
TopLevelUnfiltered(prefix) == <<HeadersDot, BodyDot>>
TopLevelFiltered(prefix) == Filter(<<HeadersDot, BodyDot>>, prefix)

\* provideSetCompletionItems(document, position): beforeCursor is the line
\* up to the cursor.
ProvideSetCompletionItems(beforeCursor, response, sharedNames) ==
    LET character == Len(beforeCursor)
        targetMatch == TargetMatch(beforeCursor)
        sourceMatch == SourceMatch(beforeCursor)
        prefix == sourceMatch.prefix
        lower == LowerCase(prefix)
    IN
    IF targetMatch.ok
    THEN Defined(Items(Filter(sharedNames, targetMatch.prefix),
                       "$shared variable",
                       character - Len(targetMatch.prefix), character))
    ELSE IF ~sourceMatch.ok THEN Undefined
    ELSE IF prefix = "" \/ prefix = "response."
    THEN Defined(Items(IF prefix = "response." THEN <<HeadersDot, BodyDot>>
                       ELSE <<"response.">>,
                       "@set source", character - Len(prefix), character))
    ELSE IF lower = HeadersDot
    THEN IF ~response.cached THEN Undefined
         ELSE Defined(Items(response.headers, "@set header",
                            character, character))
    ELSE IF StartsWith(lower, HeadersDot)
    THEN IF ~response.cached THEN Undefined
         ELSE LET headerPrefix == From(prefix, Len(HeadersDot) + 1) IN
              Defined(Items(FilterIgnoringCase(response.headers, headerPrefix),
                            "@set header",
                            character - Len(headerPrefix), character))
    ELSE IF StartsWith(lower, BodyDot) /\ ~HasSpace(From(prefix, Len(BodyDot) + 1))
    THEN LET bodyPrefix == From(prefix, Len(BodyDot) + 1) IN
         Defined(Items(FilterIgnoringCase(Dedupe(BodyOptions(response)),
                                          bodyPrefix),
                       "@set body path",
                       character - Len(bodyPrefix), character))
    ELSE Defined(Items(TopLevelFiltered(prefix), "@set source",
                       character - Len(prefix), character))

\* VariableUtility.getPartialRequestVariableReferencePathRange: the cursor
\* stands in the path of a request variable reference that is still open.
Contains(s, sub) ==
    \E i \in 1..Len(s) : StartsWith(From(s, i), sub)

InPartialReference(beforeCursor) == Contains(beforeCursor, "{{")

\* What the completion of the HTTP elements offers (HttpElementFactory): any
\* of these lists. Its items carry no range: the editor picks one.
GenericItem(text) ==
    [label |-> text, insertText |-> text, detail |-> "HTTP element",
     ranged |-> FALSE, range |-> <<0, 0>>]
GenericLists == {<<>>, <<GenericItem("GET"), GenericItem("Content-Type")>>}

\* if (setItems) return setItems: an array is truthy, empty or not
IsTruthy(result) == result.defined

\* provideCompletionItems(document, position, token)
ProvideCompletionItems(beforeCursor, response, sharedNames, generic) ==
    LET setItems == ProvideSetCompletionItems(beforeCursor, response, sharedNames) IN
    IF IsTruthy(setItems) THEN setItems
    ELSE IF InPartialReference(beforeCursor) THEN Undefined
    ELSE Defined(generic)

NoCompletion == [asked |-> FALSE]

\* The editor asks for completions at the end of input.fixed \o input.partial.
Complete(input, response, sharedNames, generic) ==
    /\ completion' =
          [asked |-> TRUE, input |-> input, response |-> response,
           sharedNames |-> sharedNames,
           result |-> ProvideCompletionItems(input.fixed \o input.partial,
                                             response, sharedNames, generic)]
    /\ UNCHANGED <<storeVars, file0, captureVars, runVars, callerVars>>

\* No request was sent yet, no completion asked for.
NoRuns ==
    /\ runs = <<>>
    /\ lastPending = 0
    /\ responseCache = {}
    /\ completion = NoCompletion

(***************************************************************************)
(* Init: the state after UserDataManager's static initialisers.            *)
(***************************************************************************)
InitWith(files) ==
    /\ file \in files
    /\ file0 = file
    /\ persisted = {Deserialize(file)}
    /\ cache = NoMap
    /\ cacheRef = NoRef
    /\ queue = 0
    /\ ops = <<>>
    /\ cacheBy = 0
    /\ mutations = 0
    /\ sharedEnv = Predeclared
    /\ cycles = <<>>
    /\ NoRuns

(***************************************************************************)
(* Spec: the store under callers of read, replace and update, whose file   *)
(* writes may fail, and who may mutate the maps they hold.                 *)
(***************************************************************************)
Init == InitWith(InitialFiles)

CallerBudget == Len(ops) + mutations < MaxOps

StoreNext ==
    \/ /\ CallerBudget
       /\ \/ \E u \in Updaters : IssueUpdate(u)
          \/ \E m \in ReplaceMaps : IssueReplace(m)
          \/ IssueRead
          \/ \E k \in OpIds : Mutate(k)
    \/ \E k \in OpIds, readOk \in BOOLEAN : UpdateStart(k, readOk)
    \/ \E k \in OpIds : UpdateApply(k)
    \/ \E k \in OpIds, writeOk \in BOOLEAN : WriteLand(k, writeOk)
    \/ \E k \in OpIds : WriteSettle(k)
    \/ \E k \in OpIds, readOk \in BOOLEAN : ReadLoad(k, readOk)
    \/ \E k \in OpIds : ReadDeliver(k)

Next == StoreNext /\ UNCHANGED <<captureVars, runVars, editorVars>>

Spec == Init /\ [][Next]_vars

(***************************************************************************)
(* SpecChain: update calls only (no other writer), issued at any moment,   *)
(* whose file reads and writes take any time and may fail.                 *)
(***************************************************************************)
InitChain == InitWith(InitialFiles)

ChainNext ==
    \/ /\ Len(ops) < MaxUpdates
       /\ \E u \in Updaters : IssueUpdate(u)
    \/ \E k \in OpIds, readOk \in BOOLEAN : UpdateStart(k, readOk)
    \/ \E k \in OpIds : UpdateApply(k)
    \/ \E k \in OpIds, writeOk \in BOOLEAN : WriteLand(k, writeOk)
    \/ \E k \in OpIds : WriteSettle(k)

NextChain == ChainNext /\ UNCHANGED <<captureVars, runVars, editorVars>>

SpecChain == InitChain /\ [][NextChain]_vars

(***************************************************************************)
(* SpecBatch: one capture cycle of any directives, over a store that was   *)
(* or was not read before, whose file may hold a key that is not           *)
(* predeclared and whose reads and writes may fail, while the user may     *)
(* edit the predeclared set.                                               *)
(***************************************************************************)
MapG == [EmptyMap EXCEPT !["g"] = "old"]
CaptureFiles == {Corrupt, MapG}

ListsOver(directives) == UNION {[1..n -> directives] : n \in 0..MaxDirectives}

CaptureBudget(ds) ==
    /\ Len(cycles) < MaxCycles
    /\ DirectivesOf(Len(cycles)) + Len(ds) <= MaxOverlapDirectives

InitBatch ==
    /\ file \in CaptureFiles
    /\ file0 = file
    /\ persisted = {Deserialize(file)}
    /\ \/ cache = NoMap /\ cacheRef = NoRef
       \/ cache = Deserialize(file) /\ cacheRef = <<"C", 0>>
    /\ queue = 0
    /\ ops = <<>>
    /\ cacheBy = 0
    /\ mutations = 0
    /\ sharedEnv \in SharedSets
    /\ cycles = <<>>
    /\ NoRuns

BatchNext ==
    \/ /\ cycles = <<>>
       /\ \E ds \in ListsOver(DirectiveSet), response \in Responses :
             CaptureStart(ds, response)
    \/ \E c \in CycleIds, readOk \in BOOLEAN : CaptureLoad(c, readOk)
    \/ \E c \in CycleIds : CaptureResume(c)
    \/ \E c \in CycleIds, writeOk \in BOOLEAN : CaptureLand(c, writeOk)
    \/ \E c \in CycleIds : CaptureSettle(c)
    \/ \E names \in SharedSets : ConfigChange(names)

NextBatch == BatchNext /\ UNCHANGED <<callerVars, runVars, editorVars>>

SpecBatch == InitBatch /\ [][NextBatch]_vars

(***************************************************************************)
(* SpecCapture: capture cycles of requests that complete at any moment, so *)
(* that cycles overlap; no file operation fails.                           *)
(***************************************************************************)
OverlapDirectives ==
    { Directive("a", HeaderPath("x-token")),
      Directive("b", JsonPath("id")),
      Directive("a", JsonPath("name")) }

InitCapture == InitWith({Corrupt})

CaptureNext ==
    \/ /\ Len(cycles) < MaxCycles
       /\ \E ds \in ListsOver(OverlapDirectives), response \in Responses :
             CaptureBudget(ds) /\ CaptureStart(ds, response)
    \/ \E c \in CycleIds : CaptureLoad(c, TRUE)
    \/ \E c \in CycleIds : CaptureResume(c)
    \/ \E c \in CycleIds : CaptureLand(c, TRUE)
    \/ \E c \in CycleIds : CaptureSettle(c)

NextCapture == CaptureNext /\ UNCHANGED <<callerVars, runVars, editorVars>>

SpecCapture == InitCapture /\ [][NextCapture]_vars

(***************************************************************************)
(* SpecRun: exchanges that the user starts, reruns and cancels at any      *)
(* moment, whose sends succeed or fail, over a store whose reads and       *)
(* writes may fail.                                                        *)
(***************************************************************************)
\* The requests of the model: the directives of the request, and whether it
\* has a name. The first has no @set metadata; the second has a directive
\* that is skipped and one that is accepted; the third one that is skipped.
RunInputs ==
    { [ds |-> <<>>, named |-> TRUE],
      [ds |-> <<Directive("g", HeaderPath("x-token")),
                Directive("b", JsonPath("id"))>>, named |-> TRUE],
      [ds |-> <<Directive("b", JsonPath("missing"))>>, named |-> FALSE] }

InitRun == InitWith({MapG})

RunNext ==
    \/ /\ Len(runs) < MaxRuns
       /\ \/ \E input \in RunInputs : RunStart(input.ds, input.named)
          \/ Rerun
    \/ Cancel
    \/ \E r \in RunIds, ok \in BOOLEAN : Arrive(r, ok)
    \/ \E r \in RunIds : CaptureReturn(r)
    \/ \E r \in RunIds : CaptureThrow(r)
    \/ /\ \/ \E c \in CycleIds, readOk \in BOOLEAN : CaptureLoad(c, readOk)
          \/ \E c \in CycleIds : CaptureResume(c)
          \/ \E c \in CycleIds, writeOk \in BOOLEAN : CaptureLand(c, writeOk)
          \/ \E c \in CycleIds : CaptureSettle(c)
       /\ UNCHANGED runVars

NextRun == RunNext /\ UNCHANGED <<callerVars, editorVars>>

SpecRun == InitRun /\ [][NextRun]_vars

(***************************************************************************)
(* SpecComplete: completions asked for on @set lines, the text left of     *)
(* the cursor being made of the fixed tokens and the partial text that is  *)
(* being completed.                                                        *)
(***************************************************************************)
SetHeads == {"# @set ", " //@set  "}
Assigns == {"lastId = ", "lastId="}

TargetPartials == {"", "l", "lastId", "x"}
TopPartials ==
    {"", "r", "response", "response.", "response.head", "response.headers",
     "response.b", "response.body", "Response.head", "response.x", "xyz"}
HeaderPartials == {"", "C", "content-t", "X-", "zz", "{{login."}
BodyPartials == {"", "$", "$.", "$.i", "*", "$.N", "q"}

Input(kind, fixed, partial) == [kind |-> kind, fixed |-> fixed, partial |-> partial]

CompletionInputs ==
    {Input("target", h, p) : h \in SetHeads, p \in TargetPartials}
    \cup {Input("top", h \o a, p) :
            h \in SetHeads, a \in Assigns, p \in TopPartials}
    \cup {Input("header", h \o a \o f, p) :
            h \in SetHeads, a \in Assigns,
            f \in {HeadersDot, "Response.Headers."}, p \in HeaderPartials}
    \cup {Input("body", h \o a \o f, p) :
            h \in SetHeads, a \in Assigns,
            f \in {BodyDot, "RESPONSE.BODY."}, p \in BodyPartials}

CachedResponses ==
    { NoResponse,
      CachedResponse(<<"Content-Type", "X-Token">>, "object", <<"id", "name">>),
      CachedResponse(<<"content-length">>, "array", <<>>),
      CachedResponse(<<>>, "invalid", <<>>) }

SharedNameLists == {<<"lastId", "limit", "token">>, <<>>}

InitComplete == InitWith({Corrupt})

CompleteNext ==
    /\ ~completion.asked
    /\ \E input \in CompletionInputs, response \in CachedResponses,
          sharedNames \in SharedNameLists, generic \in GenericLists :
           Complete(input, response, sharedNames, generic)

NextComplete == CompleteNext

SpecComplete == InitComplete /\ [][NextComplete]_vars

\* The scheduling of the event loop: a callback that is ready runs, a file
\* operation that was started completes.
SpecChainFair ==
    /\ SpecChain
    /\ WF_vars(\E k \in OpIds, readOk \in BOOLEAN :
                  UpdateStart(k, readOk) /\ UNCHANGED <<captureVars, runVars, editorVars>>)
    /\ WF_vars(\E k \in OpIds : UpdateApply(k) /\ UNCHANGED <<captureVars, runVars, editorVars>>)
    /\ WF_vars(\E k \in OpIds, writeOk \in BOOLEAN :
                  WriteLand(k, writeOk) /\ UNCHANGED <<captureVars, runVars, editorVars>>)
    /\ WF_vars(\E k \in OpIds : WriteSettle(k) /\ UNCHANGED <<captureVars, runVars, editorVars>>)

(***************************************************************************)
(* Properties of the write chain (SpecChain).                              *)
(***************************************************************************)
RECURSIVE ComposeUpTo(_)
\* The updaters of calls 1..k applied in call-issue order to the store as it
\* was at the start.
ComposeUpTo(k) ==
    IF k = 0 THEN Deserialize(file0)
    ELSE ApplyUpdater(ops[k].upd, ComposeUpTo(k - 1))

RECURSIVE ComposeLanded(_)
\* The same, of the calls among 1..k whose write has landed.
ComposeLanded(k) ==
    IF k = 0 THEN Deserialize(file0)
    ELSE IF ops[k].landed THEN ApplyUpdater(ops[k].upd, ComposeLanded(k - 1))
    ELSE ComposeLanded(k - 1)

NoFailure == \A k \in OpIds : ops[k].fail = "none"
OnlyUpdates == \A k \in OpIds : ops[k].kind = "update"
Applied(k) == ops[k].pc \in {"writing", "landed", "resolved"}
AllResolved == \A k \in OpIds : ops[k].pc = "resolved"

\* C1: N update calls issued without awaiting each other, with no other
\* writer and no I/O failure: each updater is applied exactly once, to the
\* durable result of all updates issued before it, and once all have
\* completed the file holds the updaters composed in call-issue order.
C1_UpdatesComposeInIssueOrder ==
    (OnlyUpdates /\ NoFailure) =>
        /\ \A k \in OpIds :
            /\ ops[k].applied <= 1
            /\ Applied(k) =>
                /\ ops[k].applied = 1
                /\ ops[k].snap = ComposeUpTo(k - 1)
                /\ ops[k].out = ComposeUpTo(k)
            /\ ops[k].landed /\ (\A j \in OpIds : j > k => ~ops[j].landed)
                => file = ComposeUpTo(k)
        /\ AllResolved /\ ops # <<>> => file = ComposeUpTo(Len(ops))

\* Three updates, the later two issued while their predecessor was pending,
\* all completed, in an order of updaters that matters.
C1_Witness ==
    /\ Len(ops) = 3 /\ AllResolved /\ NoFailure
    /\ ops[2].chained /\ ops[3].chained
    /\ ops[1].upd = "incA" /\ ops[2].upd = "copyAB" /\ ops[3].upd = "incA"
    /\ file["a"] # file["b"]

\* C4: an update whose read or write fails rejects its own handle only; every
\* update issued after it still runs once, in issue order, on the durable
\* result of the updates that landed, and settles by its own outcome.
C4_FailureIsolation ==
    \A k \in OpIds : ops[k].kind = "update" =>
        /\ ops[k].pc = "rejected" <=> ops[k].fail # "none"
        /\ ops[k].applied <= 1
        /\ Applied(k) \/ ops[k].fail = "write" =>
            /\ ops[k].applied = 1
            /\ ops[k].snap = ComposeLanded(k - 1)
        /\ ops[k].fail = "read" => ops[k].applied = 0
        /\ ops[k].pc # "queued" => Settled(ops[k].pred)
        /\ ops[k].pc = "resolved" => ops[k].landed

\* An update that completed although the two before it failed, one at its
\* read and one at its write.
C4_Witness ==
    /\ Len(ops) >= 3
    /\ ops[1].fail = "write" /\ ops[2].fail = "read"
    /\ ops[3].chained /\ ops[3].pc = "resolved"
    /\ file = ops[3].out

HandleResolved(k) == PromiseState(ops[k].handle) = "resolved"

\* C5: the handle an update call returns resolves only after the write of
\* that very call has landed and the cache was set to its result (which it
\* then still holds, unless a later update replaced it); and under the event
\* loop's scheduling it does resolve unless the call's own I/O fails.
C5_HandleResolvesAfterOwnWrite ==
    /\ [](\A k \in OpIds :
            HandleResolved(k) =>
                /\ ops[k].landed /\ ops[k].advanced
                /\ (\A j \in OpIds : j > k => ~ops[j].advanced)
                    => cache = ops[k].out
                /\ (\A j \in OpIds : j > k => ~ops[j].landed)
                    => file = ops[k].out)
    /\ \A k \in 1..MaxUpdates :
            (Len(ops) >= k) ~>
                (Len(ops) >= k /\ (HandleResolved(k) \/ ops[k].fail # "none"))

\* An update issued while its predecessor was pending has resolved, its
\* write in the file.
C5_Witness ==
    \E k \in OpIds :
        /\ ops[k].chained /\ HandleResolved(k) /\ ops[k].landed
        /\ file = ops[k].out /\ cache = ops[k].out

(***************************************************************************)
(* Properties of the store under all its callers (Spec).                   *)
(***************************************************************************)
\* C3: the cache is advanced only after the durable write succeeded: after
\* the write of an update or a replace has failed, the cache does not hold
\* the map of that call, which was never persisted.
C3_FailedWriteLeavesCache ==
    \A k \in OpIds :
        ops[k].fail = "write" /\ cacheBy = k => cache \in persisted

\* C6: a read() that follows replace(M), the cache still being the one the
\* replace set, returns a map equal to M, whether the write of the replace
\* is in flight, has landed or has failed.
C6_ReplaceThenRead ==
    \A r \in OpIds :
        ops[r].kind = "read" /\ ops[r].after # 0 =>
            /\ ops[r].pc = "resolved"
            /\ ops[r].out = ops[ops[r].after].out

\* A read that followed a replace whose write was still in flight; the write
\* then failed, so that the file never held M.
C6_Witness ==
    \E r \in OpIds :
        /\ ops[r].kind = "read" /\ ops[r].after # 0
        /\ ops[ops[r].after].fail = "write"
        /\ ops[r].out # Deserialize(file)

\* C7: read() never hands out the cache object, and the cache never is an
\* object a caller holds: no mutation by a caller reaches the cache or the
\* map a read() returns.
C7_ReadNeverAliasesCache ==
    /\ cache["a"] # Poison
    /\ \A k \in OpIds :
        /\ ops[k].out["a"] # Poison
        /\ ops[k].heldRef # NoRef => ops[k].heldRef # cacheRef

\* A caller mutated the map a read() gave it, from the cache, and a read()
\* made after that returned the map unchanged.
C7_Witness ==
    \E j, r \in OpIds :
        /\ j < r
        /\ ops[j].kind = "read" /\ ops[j].held["a"] = Poison
        /\ ops[r].kind = "read" /\ ops[r].mutAt >= 1 /\ ops[r].pc = "resolved"
        /\ ops[r].out = ops[j].out

(***************************************************************************)
(* Properties of overlapping capture cycles (SpecCapture).                 *)
(***************************************************************************)
Wrote(c) == cycles[c].out # NoMap
Completed(c) == cycles[c].pc = "done" /\ Wrote(c)

\* The latest cycle, among those started, whose batch holds name n; else 0.
RECURSIVE LastSetter(_, _)
LastSetter(n, c) ==
    IF c = 0 THEN 0
    ELSE IF cycles[c].updates[n] # Absent THEN c
    ELSE LastSetter(n, c - 1)

\* C2: a cycle commits its batch by one serialized read-modify-write, so
\* that once capture cycles that overlapped have all completed, the store
\* holds every accepted name/value pair of each, the cycle started later
\* winning on a shared name: no pair one cycle wrote is discarded by another.
C2_OverlappingCyclesKeepBoth ==
    (\A c \in CycleIds : cycles[c].pc = "done") =>
        \A n \in Names :
            LastSetter(n, Len(cycles)) # 0 =>
                file[n] = cycles[LastSetter(n, Len(cycles))].updates[n]

\* The text a directive of the model captures from Response1.
CapturedText(d) ==
    CASE d.path = HeaderPath("x-token") -> "t1"
      [] d.path = JsonPath("id") -> "42"
      [] d.path = JsonPath("name") -> "x"
      [] d.path = JsonPath("none") -> ""
      [] OTHER -> Absent

\* Directive i of cycle c is accepted: it parses, its target is predeclared
\* (as the cycle read the predeclared set), and its source path resolves.
Accepted(c, i) ==
    LET d == cycles[c].ds[i] IN
    /\ d.eq /\ d.name \in Identifiers
    /\ d.name \in cycles[c].shared
    /\ CapturedText(d) # Absent

\* Directive i is the last accepted directive of cycle c for its target.
LastAccepted(c, i) ==
    /\ Accepted(c, i)
    /\ \A j \in (i + 1)..Len(cycles[c].ds) :
          Accepted(c, j) => cycles[c].ds[j].name # cycles[c].ds[i].name

Targeted(c, n) ==
    \E i \in 1..Len(cycles[c].ds) : Accepted(c, i) /\ cycles[c].ds[i].name = n

\* No cycle other than c has a directive that targets name n.
OnlyTargetOf(c, n) ==
    \A o \in CycleIds \ {c} : ~Targeted(o, n)

\* C8: once the completion of a capture cycle resolves, the store holds, for
\* every accepted directive @set X = <path> (the last one for X), X mapped
\* to the string form of the resolved value, and every other key the store
\* held when the cycle's write reached it keeps its value. (Names that
\* another cycle sets as well are left out: there the later writer decides.)
C8_AcceptedDirectiveLandsInStore ==
    \A c \in CycleIds : Completed(c) =>
        /\ \A i \in 1..Len(cycles[c].ds) :
              LastAccepted(c, i) /\ OnlyTargetOf(c, cycles[c].ds[i].name) =>
                cycles[c].fileAtDone[cycles[c].ds[i].name]
                    = CapturedText(cycles[c].ds[i])
        /\ \A n \in Names :
              /\ ~Targeted(c, n) /\ OnlyTargetOf(c, n)
              /\ cycles[c].fileBefore[n] # Absent
              => cycles[c].fileAtDone[n] = cycles[c].fileBefore[n]

(***************************************************************************)
(* Properties of one capture cycle (SpecBatch).                            *)
(***************************************************************************)
\* The cycle got the store's map and ran its loop over the directives.
RanLoop(c) ==
    \/ cycles[c].pc \in {"writing", "landed"}
    \/ cycles[c].pc = "failed" /\ cycles[c].fail = "write"
    \/ cycles[c].pc = "done" /\ cycles[c].ds # <<>>

WarningsFor(c, i) ==
    {j \in 1..Len(cycles[c].warns) : cycles[c].warns[j].idx = i}

\* Directive i of cycle c parses, and its target is not a key of the
\* predeclared set (as the cycle read it).
Denied(c, i) ==
    LET d == cycles[c].ds[i] IN
    /\ d.eq /\ d.name \in Identifiers
    /\ d.name \notin cycles[c].shared

\* C9: a directive whose target is not predeclared changes nothing in the
\* store: its name is not put in the batch, the map the cycle writes holds
\* for that name what the store held; and exactly one warning is emitted for
\* it, which names the target. (Of every cycle that got to its directives.)
C9_DeniedDirectiveIsNoOp ==
    \A c \in CycleIds : RanLoop(c) =>
        \A i \in 1..Len(cycles[c].ds) : Denied(c, i) =>
            LET n == cycles[c].ds[i].name IN
            /\ cycles[c].updates[n] = Absent
            /\ Wrote(c) => cycles[c].out[n] = cycles[c].snap[n]
            /\ Cardinality(WarningsFor(c, i)) = 1
            /\ \A j \in WarningsFor(c, i) :
                  /\ cycles[c].warns[j].kind = "notPredeclared"
                  /\ cycles[c].warns[j].name = n

\* A cycle with a denied directive and an accepted one after it has
\* completed; the store held a value for the denied name, and still does.
C9_Witness ==
    \E c \in CycleIds :
        /\ Completed(c) /\ Len(cycles[c].ds) >= 2
        /\ Denied(c, 1) /\ Accepted(c, 2)
        /\ cycles[c].snap[cycles[c].ds[1].name] = "old"
        /\ file[cycles[c].ds[1].name] = "old"
        /\ file[cycles[c].ds[2].name] # Absent

\* C10: every key that a capture cycle puts in the map it writes to the
\* store belongs to the predeclared set at the moment the write is issued,
\* also when the predeclared set changed while the cycle was suspended on
\* the store's read. (Stated for the keys of the cycle's batch: a key the
\* store held before, which the cycle writes back, is not counted.)
C10_WrittenKeysPredeclaredAtWrite ==
    \A c \in CycleIds : Wrote(c) =>
        \A n \in Names :
            cycles[c].updates[n] # Absent => n \in cycles[c].sharedAtWrite

\* What the gate does ensure: the keys of the batch belong to the predeclared
\* set as the cycle read it when it started, and every other key is written
\* back as the store held it.
BatchKeysPredeclaredAtStart ==
    \A c \in CycleIds : Wrote(c) =>
        \A n \in Names :
            /\ cycles[c].updates[n] # Absent => n \in cycles[c].shared
            /\ cycles[c].updates[n] = Absent => cycles[c].out[n] = cycles[c].snap[n]

\* The kinds of faults a directive of cycle c has, out of "parse" (not an
\* assignment), "gate" (target not predeclared), "resolve" (path not in the
\* response). A directive is skipped when it has one at least.
Unparseable(c, i) ==
    ~(cycles[c].ds[i].eq /\ cycles[c].ds[i].name \in Identifiers)

Unresolvable(c, i) ==
    /\ ~Unparseable(c, i)
    /\ CapturedText(cycles[c].ds[i]) = Absent

Skipped(c, i) == Unparseable(c, i) \/ Denied(c, i) \/ Unresolvable(c, i)

\* C11: per-directive failures are not fatal. In a cycle whose directives
\* mix unparseable, denied, unresolvable and acceptable ones in any order,
\* each skipped directive yields exactly one warning and an acceptable one
\* none, the batch holds for every name the value of its last acceptable
\* directive wherever skipped ones stand before or after it, and the store
\* holds the batch once the cycle has completed.
C11_SkippedDirectivesAreNotFatal ==
    \A c \in CycleIds : RanLoop(c) =>
        \A i \in 1..Len(cycles[c].ds) :
            /\ Skipped(c, i) <=> ~Accepted(c, i)
            /\ Cardinality(WarningsFor(c, i)) = IF Skipped(c, i) THEN 1 ELSE 0
            /\ LastAccepted(c, i) =>
                 /\ cycles[c].updates[cycles[c].ds[i].name]
                        = CapturedText(cycles[c].ds[i])
                 /\ Wrote(c)
                 /\ cycles[c].out[cycles[c].ds[i].name]
                        = CapturedText(cycles[c].ds[i])
                 /\ Completed(c) =>
                      file[cycles[c].ds[i].name] = CapturedText(cycles[c].ds[i])

\* A completed cycle of four directives, one of each kind, an acceptable one
\* standing after the three skipped ones: three warnings, and the store holds
\* the acceptable directive's value.
C11_Witness ==
    \E c \in CycleIds :
        /\ Completed(c) /\ Len(cycles[c].ds) = 4
        /\ \E i, j, k \in 1..3 :
              /\ Unparseable(c, i)
              /\ Denied(c, j) /\ ~Unresolvable(c, j)
              /\ Unresolvable(c, k) /\ ~Denied(c, k)
        /\ Accepted(c, 4)
        /\ Len(cycles[c].warns) = 3
        /\ file[cycles[c].ds[4].name] = CapturedText(cycles[c].ds[4])

\* C12: an assignment is resolved first and gated second: for a directive
\* whose target is not predeclared and whose source path does not resolve,
\* the store is unchanged and the one warning shown cites the resolve
\* failure ("path segment not found").
C12_ResolveBeforeGate ==
    \A c \in CycleIds : RanLoop(c) =>
        \A i \in 1..Len(cycles[c].ds) :
            Denied(c, i) /\ Unresolvable(c, i) =>
                /\ cycles[c].updates[cycles[c].ds[i].name] = Absent
                /\ Cardinality(WarningsFor(c, i)) = 1
                /\ \A j \in WarningsFor(c, i) :
                      /\ cycles[c].warns[j].kind = "unresolved"
                      /\ cycles[c].warns[j].msg = "path segment not found"

\* The positions of the accepted directives of cycle c that target name n.
AcceptedFor(c, n) ==
    {i \in 1..Len(cycles[c].ds) : Accepted(c, i) /\ cycles[c].ds[i].name = n}

MaxOf(S) == CHOOSE i \in S : \A j \in S : j <= i

\* C13: directives are processed in file order: the value a cycle commits
\* for a name is that of the last accepted directive that targets it, also
\* when a skipped directive for the same name stands after it; a name no
\* accepted directive targets is not in the batch.
C13_LastAcceptedDirectiveWins ==
    \A c \in CycleIds : RanLoop(c) =>
        \A n \in Names :
            IF AcceptedFor(c, n) = {}
            THEN cycles[c].updates[n] = Absent
            ELSE LET v == CapturedText(cycles[c].ds[MaxOf(AcceptedFor(c, n))]) IN
                 /\ cycles[c].updates[n] = v
                 /\ Wrote(c) /\ cycles[c].out[n] = v

\* A cycle committed, for one name, the second of two accepted values that
\* differ, and for another name the accepted value that a skipped directive
\* for the same name follows.
C13_Witness ==
    \E c \in CycleIds :
        /\ Completed(c)
        /\ \E i, j \in 1..Len(cycles[c].ds) :
              /\ i < j /\ Accepted(c, i) /\ Accepted(c, j)
              /\ cycles[c].ds[i].name = cycles[c].ds[j].name
              /\ CapturedText(cycles[c].ds[i]) # CapturedText(cycles[c].ds[j])
              /\ file[cycles[c].ds[j].name] = CapturedText(cycles[c].ds[j])
        /\ \E i, j \in 1..Len(cycles[c].ds) :
              /\ i < j /\ Accepted(c, i) /\ Skipped(c, j)
              /\ cycles[c].ds[i].name = cycles[c].ds[j].name
              /\ file[cycles[c].ds[i].name] = CapturedText(cycles[c].ds[i])

\* C14: for an exchange without @set directives the capture cycle does not
\* access the store: the step that starts it leaves file and cache as they
\* are, and the cycle is complete at once, having read no map, written none
\* and shown no warning.
C14_NoDirectivesNoStoreAccess ==
    /\ [](\A c \in CycleIds : cycles[c].ds = <<>> =>
            /\ cycles[c].pc = "done" /\ cycles[c].fail = "none"
            /\ cycles[c].snap = NoMap /\ cycles[c].out = NoMap
            /\ cycles[c].warns = <<>>)
    /\ [][(/\ Len(cycles') = Len(cycles) + 1
           /\ cycles'[Len(cycles')].ds = <<>>) => UNCHANGED storeVars]_vars

\* A cycle without directives has run over a store that holds a key and was
\* never read: the cache is still empty and the file as it was.
C14_Witness ==
    \E c \in CycleIds :
        /\ cycles[c].ds = <<>> /\ cycles[c].pc = "done"
        /\ cache = NoMap /\ file = MapG

(***************************************************************************)
(* Properties of the exchange (SpecRun).                                   *)
(***************************************************************************)
\* C15: capture is not executed for a cancelled exchange: when the request
\* is marked cancelled at the moment its response or error arrives, runCore
\* starts no capture cycle (no store read or write, no directive warnings)
\* and adds nothing to the response cache; the step leaves file and cache
\* as they are.
C15_NoCaptureWhenCancelled ==
    /\ [](\A r \in RunIds : runs[r].atArrival = "cancelled" =>
            /\ runs[r].pc = "returned"
            /\ runs[r].cycle = 0
            /\ r \notin responseCache)
    /\ [][\A r \in RunIds :
            (runs[r].pc = "sending" /\ Marked(r) /\ runs'[r].pc # "sending")
                => UNCHANGED <<storeVars, cycles, responseCache>>]_vars

\* The response of a named request with directives arrived after the request
\* was cancelled: no cycle exists, the response cache is empty.
C15_Witness ==
    \E r \in RunIds :
        /\ runs[r].atArrival = "cancelled" /\ runs[r].pc = "returned"
        /\ runs[r].named /\ runs[r].meta /\ runs[r].ds # <<>>
        /\ cycles = <<>> /\ responseCache = {}

\* Run r has ended, and the store failed during its capture cycle.
StoreFailed(r) ==
    /\ runs[r].pc \in {"done", "error", "returned"}
    /\ runs[r].cycle # 0
    /\ cycles[runs[r].cycle].pc = "failed"

\* The warnings of run r's cycle stand: one for each skipped directive.
WarningsStand(r) ==
    LET c == runs[r].cycle IN
    \A i \in 1..Len(cycles[c].ds) :
        Skipped(c, i) => Cardinality(WarningsFor(c, i)) = 1

\* C16: a failure of the store's read or write during a capture cycle shows
\* the user exactly one error, which is not one of the directive warnings,
\* and the warnings the cycle showed before its write failed stand.
C16_StoreFailureShowsOneError ==
    \A r \in RunIds : StoreFailed(r) =>
        /\ runs[r].errors = <<"store">>
        /\ cycles[runs[r].cycle].fail = "write" => WarningsStand(r)

\* What runCore does ensure: the error is shown once when the request was
\* never cancelled.
StoreFailureShownUnlessCancelled ==
    \A r \in RunIds : StoreFailed(r) /\ ~Marked(r) =>
        /\ runs[r].errors = <<"store">>
        /\ cycles[runs[r].cycle].fail = "write" => WarningsStand(r)

(***************************************************************************)
(* Properties of the completion (SpecComplete).                            *)
(***************************************************************************)
Labels(result) == [i \in 1..Len(result.items) |-> result.items[i].label]

\* C17: on "@set <name> = response.headers.<partial>", when no response is
\* cached for the request, the completion offers no suggestion at all: none
\* of another rule, none of the completion of the HTTP elements.
C17_NoResponseNoSuggestions ==
    (/\ completion.asked
     /\ completion.input.kind = "header"
     /\ ~completion.response.cached)
        => completion.result.items = <<>>

\* p is what o starts with.
IsPrefixOf(p, o) == \E n \in 0..Len(o) : p = (IF n = 0 THEN "" ELSE SubSeq(o, 1, n))

\* C18: when the partial source path is not empty, is not "response." and
\* is no continuation of "response.headers." or "response.body.", the
\* suggestions are exactly those of these two that the partial is a prefix
\* of; "response.head" gives "response.headers." alone.
C18_FallbackFiltersByPrefix ==
    (/\ completion.asked
     /\ completion.input.kind = "top"
     /\ completion.input.partial \notin {"", "response."})
        => /\ completion.result.defined
           /\ Labels(completion.result)
                = SelectSeq(<<"response.headers.", "response.body.">>,
                            LAMBDA o : IsPrefixOf(completion.input.partial, o))
           /\ completion.input.partial = "response.head"
                => Labels(completion.result) = <<"response.headers.">>

\* "response.head" was completed: "response.headers." is the one suggestion.
C18_Witness ==
    /\ completion.asked
    /\ completion.input.kind = "top"
    /\ completion.input.partial = "response.head"
    /\ Labels(completion.result) = <<"response.headers.">>

\* The range of the partial text of the input: from the end of the fixed
\* tokens to the cursor.
PartialRange(input) == <<Len(input.fixed), Len(input.fixed \o input.partial)>>

\* C19: every suggestion made on a @set line has a range that ends at the
\* cursor and starts at the first character of the partial text, so that
\* accepting it leaves the fixed tokens before it as they are.
C19_RangesSpanThePartial ==
    completion.asked =>
        \A i \in 1..Len(completion.result.items) :
            /\ completion.result.items[i].ranged
            /\ completion.result.items[i].range = PartialRange(completion.input)

\* What provideSetCompletionItems does ensure: the items it makes itself
\* span the partial text.
SetItemsSpanThePartial ==
    completion.asked =>
        \A i \in 1..Len(completion.result.items) :
            completion.result.items[i].ranged =>
                completion.result.items[i].range = PartialRange(completion.input)

\* The promise that call k of the store returned has settled.
OpCompleted(k) == ops[k].pc \in {"resolved", "rejected"}

\* C20: once every issued read(), replace() and update() has completed, and
\* no read or write of the file failed, the cache, if populated, equals the
\* contents of the file.
C20_CacheCoherentAtQuiescence ==
    (ops # <<>> /\ (\A k \in OpIds : OpCompleted(k)) /\ NoFailure /\ CacheHit)
        => cache = Deserialize(file)

\* The case of C20 with read() and update() alone: a read() that missed the
\* cache, and every update, have completed.
LazyReadLeavesCacheCurrent ==
    (/\ ops # <<>> /\ (\A k \in OpIds : OpCompleted(k)) /\ NoFailure /\ CacheHit
     /\ \A k \in OpIds : ops[k].kind \in {"read", "update"})
        => cache = Deserialize(file)

\* C21: when a replace() and an update() are the two calls that wrote the
\* store, and both have completed with no failure, the file holds the result
\* of the two in the order of their issue: the map of the replace when it
\* was issued last, else the updater applied to that map.
C21_ReplaceOrderedWithUpdates ==
    \A j, k \in OpIds :
        (/\ j < k
         /\ {w \in OpIds : ops[w].kind \in {"update", "replace"}} = {j, k}
         /\ ops[j].kind # ops[k].kind
         /\ OpCompleted(j) /\ OpCompleted(k) /\ NoFailure)
            => file = IF ops[k].kind = "replace" THEN ops[k].out
                      ELSE ApplyUpdater(ops[k].upd, ops[j].out)

\* C22: rerun() never performs capture: a run made by rerun() (it sends the
\* request object of an earlier run, runs[r].req # r) has no capture
\* cycle and no entry in the response cache, and the step in which its
\* response or error arrives leaves the store, the cycles and the response
\* cache as they are.
C22_RerunNeverCaptures ==
    /\ [](\A r \in RunIds : runs[r].req # r =>
            /\ runs[r].cycle = 0
            /\ runs[r].pc # "capturing"
            /\ r \notin responseCache)
    /\ [][\A r \in RunIds :
            (runs[r].req # r /\ runs[r].pc = "sending" /\ runs'[r].pc # "sending")
                => UNCHANGED <<storeVars, cycles, responseCache>>]_vars

\* The response of a rerun arrived, the request not cancelled; the request
\* has a name and @set directives: no cycle was started for the rerun.
C22_Witness ==
    \E r \in RunIds :
        /\ runs[r].req # r /\ runs[r].pc = "done" /\ runs[r].atArrival = "live"
        /\ runs[r].named /\ runs[r].ds # <<>>
        /\ runs[r].cycle = 0 /\ r \notin responseCache

\* The runCore of run r has not finished.
Pending(r) == runs[r].pc \in {"sending", "capturing"}

\* _lastPendingRequest is undefined, or the request of the most recently
\* started run, which has not finished.
TrackedIsLatestPending ==
    lastPending # 0 =>
        /\ runs[Len(runs)].req = lastPending
        /\ Pending(Len(runs))

\* The end of a run leaves the tracking as it is when a run started after
\* it is still pending and tracked.
FinishKeepsNewerTracked ==
    [][\A r, n \in RunIds :
        (/\ r < n /\ Pending(r) /\ ~Pending(r)'
         /\ Pending(n)' /\ lastPending = runs[n].req)
            => lastPending' = lastPending]_vars

\* cancel() marks only a request that a run not yet finished is sending.
CancelHitsPending ==
    [][\A q \in RunIds :
        (~runs[q].cancelled /\ runs'[q].cancelled)
            => \E r \in RunIds : runs[r].req = q /\ Pending(r)]_vars

\* C23: in every reachable state _lastPendingRequest is undefined or the most
\* recently started request whose runCore has not finished; the end of an
\* older run never clears the tracking of a newer pending one; and cancel()
\* only cancels a request that is still in flight.
C23_PendingRequestTracking ==
    /\ []TrackedIsLatestPending
    /\ FinishKeepsNewerTracked
    /\ CancelHitsPending

\* What the finally of runCore does ensure: the end of a run leaves the
\* tracking of a newer pending run as it is when that run sends another
\* request object.
FinishKeepsOtherRequestTracked ==
    [][\A r, n \in RunIds :
        (/\ r < n /\ Pending(r) /\ ~Pending(r)'
         /\ Pending(n)' /\ lastPending = runs[n].req
         /\ runs[n].req # runs[r].req)
            => lastPending' = lastPending]_vars

====
